---- MODULE Spec2Model ----
(***************************************************************************)
(* Model of Dygraph.synchronize                                            *)
(* (frontend/src/components/general/Chart/DyPlugins/synchronize.js).       *)
(*                                                                         *)
(* The state is the closure state of one synchronize() call (dygraphs,     *)
(* opts, prevCallbacks, readycount, the two block flags) together with the *)
(* charts it is bound to.  Every handler runs to completion on the UI      *)
(* event loop, so each handler is one action; the synchronous re-entrancy  *)
(* (updateOptions redraws the chart, which re-enters drawCallback) is      *)
(* computed inside the action by recursive operators, and the calls a      *)
(* handler made on the charts are kept in `log`.                           *)
(***************************************************************************)
EXTENDS Integers, Sequences, FiniteSets, TLC

\* ---- bounds ----
NumCharts == 3      \* charts that exist on the page
MaxArgs   == 3      \* longest argument list given to synchronize()
MaxSeq    == 3      \* longest array given as first argument
MaxEvents == 1      \* user events per run when draws and selections are mixed
MaxZoomEvents == 2  \* draw events per run of the viewport protocol alone
MaxSelEvents == 2   \* highlight / unhighlight events per run of the selection protocol alone
MaxFailEvents == 2  \* user events per run when chart operations may throw
MaxDepth  == 2      \* depth of synchronous re-entrancy that is followed

Charts == 1..NumCharts
NonChart == 0       \* an array element that is not a Dygraph

OPTIONS == {"selection", "zoom", "range"}
callBackTypes == <<"drawCallback", "highlightCallback", "unhighlightCallback">>
SlotNames == {callBackTypes[k] : k \in 1..3}

\* ---- JavaScript values ----
\* an array, or undefined/null (what getOption returns for an unset option)
Arr(s) == [isArray |-> TRUE, elems |-> s]
Undef  == [isArray |-> FALSE, elems |-> <<>>]

\* values of a callback option: unset, a callback the page configured on the
\* chart, or a callback installed by synchronize
Absent       == [kind |-> "absent", chart |-> 0, slot |-> ""]
UserHook(c, s) == [kind |-> "user", chart |-> c, slot |-> s]
SyncHook(s)  == [kind |-> "sync", chart |-> 0, slot |-> s]
Truthy(h)    == h.kind # "absent"

NoSel        == [on |-> FALSE, row |-> -1, series |-> ""]
Sel(r, s)    == [on |-> TRUE, row |-> r, series |-> s]
NoRow        == -1    \* getRowForX: null

\* ---- argument values of synchronize() ----
AChart(c) == [k |-> "chart", id |-> c, o |-> {}, s |-> <<>>]
AObj(o)   == [k |-> "obj",   id |-> 0, o |-> o,  s |-> <<>>]
ASeq(s)   == [k |-> "seq",   id |-> 0, o |-> {}, s |-> s]
ANum      == [k |-> "num",   id |-> 0, o |-> {}, s |-> <<>>]
ANull     == [k |-> "null",  id |-> 0, o |-> {}, s |-> <<>>]

OptObjs == { {}, {<<"zoom", FALSE>>}, {<<"selection", FALSE>>},
             {<<"range", FALSE>>},
             {<<"zoom", FALSE>>, <<"selection", FALSE>>} }

SeqsUpTo(S, n) == UNION {[1..m -> S] : m \in 0..n}
Distinct(seq) == \A i, j \in 1..Len(seq) : i # j => seq[i] # seq[j]

PosVals  == {AChart(c) : c \in Charts} \cup {AObj(o) : o \in OptObjs} \cup {ANum, ANull}
TailVals == {AObj(o) : o \in OptObjs} \cup {ANum}
SeqVals  == {ASeq(s) : s \in SeqsUpTo(Charts \cup {NonChart}, MaxSeq)}

ArgLists == SeqsUpTo(PosVals, MaxArgs)
            \cup {<<a>> \o t : a \in SeqVals, t \in SeqsUpTo(TailVals, MaxArgs - 1)}

\* ---- the charts (Dygraph objects) ----
\* callbacks the page configured on a chart before synchronize() is called
PriorHooks(c) == CASE c % 3 = 1 -> SlotNames
                   [] c % 3 = 2 -> {}
                   [] OTHER     -> {"drawCallback", "unhighlightCallback"}

\* x values of the rows of a chart's data
XData(c) == CASE c % 3 = 1 -> <<10, 20, 30>>
              [] c % 3 = 2 -> <<20, 30>>
              [] OTHER     -> <<10, 30>>

\* whether the chart reports a selection made through setSelection /
\* clearSelection by calling its own highlightCallback / unhighlightCallback
Raises(c) == c % 2 = 0

HighlightXs == {10, 20}
Series      == {"temp", "hum"}
Views == { [x |-> <<0, 10>>, y |-> <<0, 1>>],
           [x |-> <<2, 5>>,  y |-> <<0, 1>>],
           [x |-> <<2, 5>>,  y |-> <<0, 2>>] }

InitChart(c) ==
  [ ready |-> FALSE, readyFns |-> 0,
    drawCallback        |-> IF "drawCallback" \in PriorHooks(c)
                            THEN UserHook(c, "drawCallback") ELSE Absent,
    highlightCallback   |-> IF "highlightCallback" \in PriorHooks(c)
                            THEN UserHook(c, "highlightCallback") ELSE Absent,
    unhighlightCallback |-> IF "unhighlightCallback" \in PriorHooks(c)
                            THEN UserHook(c, "unhighlightCallback") ELSE Absent,
    dateWindow |-> Undef, valueRange |-> Undef,
    xRange |-> <<0, 10>>, yRange |-> <<0, 1>>,
    sel |-> NoSel ]

\* Dygraph.getRowForX
getRowForX(c, x) ==
  IF \E i \in 1..Len(XData(c)) : XData(c)[i] = x
  THEN (CHOOSE i \in 1..Len(XData(c)) : XData(c)[i] = x) - 1
  ELSE NoRow

VARIABLES
  phase,          \* "none": synchronize() not called; "built": handle returned; "failed": it threw
  err,            \* error thrown by the last call ("" if none)
  last,           \* the last call or event and its inputs
  events,         \* number of user events so far
  dygraphs, opts, prevCallbacks,   \* the closure variables of synchronize()
  released,       \* which of them detach() has set to null
  readycount,
  g,              \* the charts
  zblock, sblock, \* `block` of attachZoomHandlers / attachSelectionHandlers
  log,            \* calls made on the charts by the last action
  activations,    \* times the body of `if (--readycount == 0)` has run
  nReady, nGet, nSet  \* calls so far of ready / getFunctionOption / updateOptions with callbacks

vars == <<phase, err, last, events, dygraphs, opts, prevCallbacks, released,
          readycount, g, zblock, sblock, log, activations, nReady, nGet, nSet>>

DefaultOpts == [n \in OPTIONS |-> TRUE]

\* ---- errors ----
ENoArgs  == "Need >= 1 argument."
ELast    == "Last argument must be either Dygraph or Object."
EAllBut  == "All but the last argument must be Dygraph objects."
ETwoArgs == "Expected two arguments: array and optional options argument."
EFirst   == "First parameter must be either Dygraph or list of Dygraphs."
ENeedTwo == "Need two or more dygraphs to synchronize."
ETypeError == "TypeError"
ECollaborator == "collaborator error"   \* whatever a chart operation or a vaulted callback throws

\* ---- the state threaded through a handler ----
St == [ dygraphs |-> dygraphs, opts |-> opts, prevCallbacks |-> prevCallbacks,
        released |-> released, readycount |-> readycount, g |-> g,
        zblock |-> zblock, sblock |-> sblock, log |-> <<>>,
        activations |-> activations, nReady |-> nReady, nGet |-> nGet,
        nSet |-> nSet, thrown |-> "",
        failAt |-> 0,   \* which collaborator call of this event throws (0: none)
        calls |-> 0 ]   \* collaborator calls made so far by this event

Commit(S) ==
  /\ dygraphs' = S.dygraphs /\ opts' = S.opts /\ prevCallbacks' = S.prevCallbacks
  /\ released' = S.released /\ readycount' = S.readycount /\ g' = S.g
  /\ zblock' = S.zblock /\ sblock' = S.sblock /\ log' = S.log
  /\ activations' = S.activations /\ nReady' = S.nReady /\ nGet' = S.nGet
  /\ nSet' = S.nSet /\ err' = S.thrown

Ev(op, c, slot) == [op |-> op, chart |-> c, slot |-> slot, keys |-> {},
                    row |-> -1, series |-> "", depth |-> 0, block |-> FALSE]
Logged(S, e) == [S EXCEPT !.log = Append(@, e)]
Throw(S, e)  == [S EXCEPT !.thrown = e]

\* a call a handler makes on a chart or on a vaulted callback: it returns, or
\* it throws and the exception leaves the handler
Fails(S)        == S.failAt # 0 /\ S.calls + 1 = S.failAt
Returned(S)     == [S EXCEPT !.calls = @ + 1]
Raise(S, n, op) == Logged([S EXCEPT !.calls = @ + 1, !.thrown = ECollaborator],
                          Ev("throw", n, op))

\* a variant in which an exception is caught and the loop goes on
LoopEnds_Caught(S, i) == i > Len(S.dygraphs)

\* `for (...; i < gs.length; ...)`: the loop ends after the last chart, or
\* when a call in its body has thrown (there is no try/catch)
LoopEnds(S, i) == i > Len(S.dygraphs) \/ S.thrown # ""

\* a variant that leaves the guard set after every propagation
BlockLeftSet_Always(thrown) == TRUE

\* the value of `block` when a handler that set it is left: `block = false`
\* is the last statement, reached only if nothing has thrown
BlockLeftSet(thrown) == thrown # ""

Act(name) == [act |-> name, chart |-> 0, args |-> <<>>, x |-> 0, series |-> "",
              initial |-> FALSE, view |-> <<>>]

Init ==
  /\ phase = "none" /\ err = "" /\ last = Act("init") /\ events = 0
  /\ dygraphs = <<>> /\ opts = DefaultOpts /\ prevCallbacks = <<>>
  /\ released = {} /\ readycount = 0
  /\ g = [c \in Charts |-> InitChart(c)]
  /\ zblock = FALSE /\ sblock = FALSE /\ log = <<>>
  /\ activations = 0 /\ nReady = 0 /\ nGet = 0 /\ nSet = 0

\* ======================= viewport sync =======================

RECURSIVE ElemsEqualFrom(_, _, _)
ElemsEqualFrom(a, b, i) ==
  IF i = 0 THEN TRUE
  ELSE IF a[i] # b[i] THEN FALSE
  ELSE ElemsEqualFrom(a, b, i - 1)

arraysAreEqual(a, b) ==
  IF ~a.isArray \/ ~b.isArray THEN FALSE
  ELSE IF Len(a.elems) # Len(b.elems) THEN FALSE
  ELSE ElemsEqualFrom(a.elems, b.elems, Len(a.elems))

\* a variant that sends the value range whatever the `range` option says
ZoomOpts_AlwaysRange(S, me) ==
  [ keys       |-> {"dateWindow", "valueRange"},
    dateWindow |-> Arr(S.g[me].xRange),
    valueRange |-> Arr(S.g[me].yRange) ]

\* the object `opts` built by drawCallback from the chart that drew
ZoomOpts(S, me) ==
  [ keys       |-> IF S.opts.range THEN {"dateWindow", "valueRange"} ELSE {"dateWindow"},
    dateWindow |-> Arr(S.g[me].xRange),
    valueRange |-> IF S.opts.range THEN Arr(S.g[me].yRange) ELSE Undef ]

\* a variant that skips a chart as soon as one of the two options is equal
SkipRedraw_EitherEqual(patch, chart) ==
  \/ arraysAreEqual(patch.dateWindow, chart.dateWindow)
  \/ arraysAreEqual(patch.valueRange, chart.valueRange)

\* "Only redraw if there are new options"
SkipRedraw(patch, chart) ==
  /\ arraysAreEqual(patch.dateWindow, chart.dateWindow)
  /\ arraysAreEqual(patch.valueRange, chart.valueRange)

\* a variant without the re-entrancy guard
DrawSuppressed_NoGuard(block, initial) == initial

\* the test `if (block || initial) return;`
DrawSuppressed(block, initial) == block \/ initial

RECURSIVE FireDraw(_, _, _, _)
RECURSIVE drawCallback(_, _, _, _)
RECURSIVE DrawLoop(_, _, _, _, _)
RECURSIVE DrawLoop_PrevLast(_, _, _, _, _)
RECURSIVE updateOptions(_, _, _, _)

\* Dygraph.updateOptions(patch) with a date window / value range: the options
\* are stored, the chart shows them and redraws, which calls its drawCallback
updateOptions(S, n, patch, d) ==
  LET c1 == [S.g[n] EXCEPT !.dateWindow = patch.dateWindow,
                           !.xRange = patch.dateWindow.elems]
      c2 == IF "valueRange" \in patch.keys
            THEN [c1 EXCEPT !.valueRange = patch.valueRange,
                            !.yRange = patch.valueRange.elems]
            ELSE c1
      S1 == Logged([S EXCEPT !.g[n] = c2],
                   [Ev("updateOptions", n, "") EXCEPT !.keys = patch.keys,
                                                      !.depth = MaxDepth - d])
  IN IF Fails(S) THEN Raise(S, n, "updateOptions")
     ELSE IF d = 0 THEN Logged(Returned(S1), Ev("overflow", n, "drawCallback"))
     ELSE FireDraw(Returned(S1), n, FALSE, d - 1)

\* the chart calls its configured drawCallback(me, initial)
FireDraw(S, c, initial, d) ==
  LET h == S.g[c].drawCallback
  IN CASE h.kind = "sync" -> drawCallback(S, c, initial, d)
       [] h.kind = "user" -> Logged(S, [Ev("user", c, "drawCallback") EXCEPT !.depth = MaxDepth - d])
       [] OTHER -> S

\* prevCallbacks[j][slot].apply(this, arguments)
ApplyPrev(S, j, slot, block, d) ==
  LET n == S.dygraphs[j]
  IN IF j <= Len(S.prevCallbacks) /\ Truthy(S.prevCallbacks[j][slot])
     THEN IF Fails(S) THEN Raise(S, n, slot)
          ELSE Logged(Returned(S), [Ev("prev", n, slot) EXCEPT !.depth = MaxDepth - d,
                                                               !.row = j,
                                                               !.block = block])
     ELSE S

\* a variant that calls the vaulted draw callback after the loop over the group
DrawLoop_PrevLast(S, me, patch, j, d) ==
  IF LoopEnds(S, j)
  THEN IF S.thrown # "" \/ \A k \in 1..Len(S.dygraphs) : S.dygraphs[k] # me THEN S
       ELSE ApplyPrev(S, CHOOSE k \in 1..Len(S.dygraphs) : S.dygraphs[k] = me,
                      "drawCallback", S.zblock, d)
  ELSE LET n == S.dygraphs[j]
       IN IF n = me \/ SkipRedraw(patch, S.g[n])
          THEN DrawLoop_PrevLast(S, me, patch, j + 1, d)
          ELSE DrawLoop_PrevLast(updateOptions(S, n, patch, d), me, patch, j + 1, d)

DrawLoop(S, me, patch, j, d) ==
  IF LoopEnds(S, j) THEN S
  ELSE LET n == S.dygraphs[j]
       IN IF n = me
          THEN DrawLoop(ApplyPrev(S, j, "drawCallback", S.zblock, d), me, patch, j + 1, d)
          ELSE IF SkipRedraw(patch, S.g[n])
          THEN DrawLoop(S, me, patch, j + 1, d)
          ELSE DrawLoop(updateOptions(S, n, patch, d), me, patch, j + 1, d)

drawCallback(S, me, initial, d) ==
  IF DrawSuppressed(S.zblock, initial)
  THEN Logged(S, [Ev("return", me, "drawCallback") EXCEPT !.depth = MaxDepth - d])
  ELSE LET S1 == Logged([S EXCEPT !.zblock = TRUE],
                        [Ev("propagate", me, "drawCallback") EXCEPT !.depth = MaxDepth - d])
           S2 == DrawLoop(S1, me, ZoomOpts(S1, me), 1, d)
       IN [S2 EXCEPT !.zblock = BlockLeftSet(S2.thrown)]

\* ======================= selection sync =======================

\* a variant that tests the row for truthiness (`if (idx)`)
RowFound_Truthy(idx) == idx # NoRow /\ idx # 0

\* the test `idx !== null`
RowFound(idx) == idx # NoRow

RECURSIVE FireHighlight(_, _, _, _, _)
RECURSIVE highlightCallback(_, _, _, _, _)
RECURSIVE HighlightLoop(_, _, _, _, _, _)
RECURSIVE setSelection(_, _, _, _, _, _)

\* Dygraph.setSelection(row, seriesName)
setSelection(S, n, x, idx, seriesName, d) ==
  LET S1 == Logged([S EXCEPT !.g[n].sel = Sel(idx, seriesName)],
                   [Ev("setSelection", n, "") EXCEPT !.row = idx, !.series = seriesName,
                                                     !.depth = MaxDepth - d])
  IN IF Fails(S) THEN Raise(S, n, "setSelection")
     ELSE IF ~Raises(n) THEN Returned(S1)
     ELSE IF d = 0 THEN Logged(Returned(S1), Ev("overflow", n, "highlightCallback"))
     ELSE FireHighlight(Returned(S1), n, x, seriesName, d - 1)

FireHighlight(S, c, x, seriesName, d) ==
  LET h == S.g[c].highlightCallback
  IN CASE h.kind = "sync" -> highlightCallback(S, c, x, seriesName, d)
       [] h.kind = "user" -> Logged(S, [Ev("user", c, "highlightCallback") EXCEPT !.depth = MaxDepth - d])
       [] OTHER -> S

HighlightLoop(S, me, x, seriesName, i, d) ==
  IF LoopEnds(S, i) THEN S
  ELSE LET n == S.dygraphs[i]
           idx == getRowForX(n, x)
       IN IF me = n
          THEN HighlightLoop(ApplyPrev(S, i, "highlightCallback", S.sblock, d),
                             me, x, seriesName, i + 1, d)
          ELSE IF Fails(S)
          THEN Raise(S, n, "getRowForX")
          ELSE IF RowFound(idx)
          THEN HighlightLoop(setSelection(Returned(S), n, x, idx, seriesName, d),
                             me, x, seriesName, i + 1, d)
          ELSE HighlightLoop(Returned(S), me, x, seriesName, i + 1, d)

highlightCallback(S, me, x, seriesName, d) ==
  IF S.sblock
  THEN Logged(S, [Ev("return", me, "highlightCallback") EXCEPT !.depth = MaxDepth - d])
  ELSE LET S1 == Logged([S EXCEPT !.sblock = TRUE],
                        [Ev("propagate", me, "highlightCallback") EXCEPT !.depth = MaxDepth - d])
           S2 == HighlightLoop(S1, me, x, seriesName, 1, d)
       IN [S2 EXCEPT !.sblock = BlockLeftSet(S2.thrown)]

RECURSIVE FireUnhighlight(_, _, _)
RECURSIVE unhighlightCallback(_, _, _)
RECURSIVE UnhighlightLoop(_, _, _, _)
RECURSIVE clearSelection(_, _, _)

\* Dygraph.clearSelection()
clearSelection(S, n, d) ==
  LET S1 == Logged([S EXCEPT !.g[n].sel = NoSel],
                   [Ev("clearSelection", n, "") EXCEPT !.depth = MaxDepth - d])
  IN IF Fails(S) THEN Raise(S, n, "clearSelection")
     ELSE IF ~Raises(n) THEN Returned(S1)
     ELSE IF d = 0 THEN Logged(Returned(S1), Ev("overflow", n, "unhighlightCallback"))
     ELSE FireUnhighlight(Returned(S1), n, d - 1)

FireUnhighlight(S, c, d) ==
  LET h == S.g[c].unhighlightCallback
  IN CASE h.kind = "sync" -> unhighlightCallback(S, c, d)
       [] h.kind = "user" -> Logged(S, [Ev("user", c, "unhighlightCallback") EXCEPT !.depth = MaxDepth - d])
       [] OTHER -> S

UnhighlightLoop(S, me, i, d) ==
  IF LoopEnds(S, i) THEN S
  ELSE LET n == S.dygraphs[i]
       IN IF me = n
          THEN UnhighlightLoop(ApplyPrev(S, i, "unhighlightCallback", S.sblock, d), me, i + 1, d)
          ELSE UnhighlightLoop(clearSelection(S, n, d), me, i + 1, d)

unhighlightCallback(S, me, d) ==
  IF S.sblock
  THEN Logged(S, [Ev("return", me, "unhighlightCallback") EXCEPT !.depth = MaxDepth - d])
  ELSE LET S1 == Logged([S EXCEPT !.sblock = TRUE],
                        [Ev("propagate", me, "unhighlightCallback") EXCEPT !.depth = MaxDepth - d])
           S2 == UnhighlightLoop(S1, me, 1, d)
       IN [S2 EXCEPT !.sblock = BlockLeftSet(S2.thrown)]

\* ======================= activation =======================

\* one chart's entry of prevCallbacks: the three getFunctionOption reads
Snapshot(chart) ==
  [ drawCallback        |-> chart.drawCallback,
    highlightCallback   |-> chart.highlightCallback,
    unhighlightCallback |-> chart.unhighlightCallback ]

RECURSIVE StoreLoop(_, _)
StoreLoop(S, j) ==
  IF j > Len(S.dygraphs) THEN S
  ELSE IF S.dygraphs[j] = NonChart
  THEN Throw(S, ETypeError)                     \* getFunctionOption is not a function
  ELSE LET n   == S.dygraphs[j]
           rec == Snapshot(S.g[n])
           S1  == [S EXCEPT !.prevCallbacks = IF j <= Len(@) THEN [@ EXCEPT ![j] = rec]
                                              ELSE Append(@, rec),
                            !.nGet = @ + 3,
                            !.log = @ \o << Ev("getFunctionOption", n, callBackTypes[3]),
                                            Ev("getFunctionOption", n, callBackTypes[2]),
                                            Ev("getFunctionOption", n, callBackTypes[1]) >>]
       IN StoreLoop(S1, j + 1)

\* "store original callbacks"
storeOriginalCallbacks(S) == StoreLoop(S, 1)

RECURSIVE AttachZoomLoop(_, _)
AttachZoomLoop(S, i) ==
  IF i > Len(S.dygraphs) THEN S
  ELSE LET n == S.dygraphs[i]
       IN AttachZoomLoop([S EXCEPT !.g[n].drawCallback = SyncHook("drawCallback"),
                                   !.nSet = @ + 1,
                                   !.log = Append(@, Ev("install", n, "drawCallback"))],
                         i + 1)

attachZoomHandlers(S) == AttachZoomLoop([S EXCEPT !.zblock = FALSE], 1)

RECURSIVE AttachSelectionLoop(_, _)
AttachSelectionLoop(S, i) ==
  IF i > Len(S.dygraphs) THEN S
  ELSE LET n == S.dygraphs[i]
       IN AttachSelectionLoop(
            [S EXCEPT !.g[n].highlightCallback = SyncHook("highlightCallback"),
                      !.g[n].unhighlightCallback = SyncHook("unhighlightCallback"),
                      !.nSet = @ + 1,
                      !.log = @ \o << Ev("install", n, "highlightCallback"),
                                      Ev("install", n, "unhighlightCallback") >>],
            i + 1)

attachSelectionHandlers(S) == AttachSelectionLoop([S EXCEPT !.sblock = FALSE], 1)

\* a variant that installs the draw handler whatever the `zoom` option says
attachHandlers_AlwaysZoom(S) ==
  LET S1 == attachZoomHandlers(S)
  IN IF S1.opts.selection THEN attachSelectionHandlers(S1) ELSE S1

\* "Listen for draw, highlight, unhighlight callbacks."
attachHandlers(S) ==
  LET S1 == IF S.opts.zoom THEN attachZoomHandlers(S) ELSE S
  IN IF S1.opts.selection THEN attachSelectionHandlers(S1) ELSE S1

\* a variant that reads the callbacks after the handlers are installed
Activate_StoreAfterAttach(S) ==
  IF "dygraphs" \in S.released
  THEN Throw(S, ETypeError)
  ELSE [storeOriginalCallbacks(attachHandlers(S)) EXCEPT !.activations = @ + 1]

\* the body of `if (--readycount == 0) { ... }`
Activate(S) ==
  IF "dygraphs" \in S.released
  THEN Throw(S, ETypeError)                     \* dygraphs.length of null
  ELSE LET S1 == storeOriginalCallbacks(S)
       IN IF S1.thrown # "" THEN S1
          ELSE [attachHandlers(S1) EXCEPT !.activations = @ + 1]

\* a variant that fires one callback early
LastReady_OneEarly(n) == n <= 1

\* the test `--readycount == 0`, on the decremented value
LastReady(n) == n = 0

\* the callback given to g.ready()
ReadyCallback(S) ==
  LET S1 == [S EXCEPT !.readycount = @ - 1]
  IN IF LastReady(S1.readycount) THEN Activate(S1) ELSE S1

\* ======================= synchronize() =======================

InstanceOfObject(v) == v.k \in {"chart", "obj", "seq"}
InstanceOfDygraph(v) == v.k = "chart"
HasOwnProperty(v, name) == \E b \in BOOLEAN : <<name, b>> \in v.o
Prop(v, name) == CHOOSE b \in BOOLEAN : <<name, b>> \in v.o

parseOpts(obj) ==
  IF ~InstanceOfObject(obj)
  THEN [err |-> ELast, opts |-> DefaultOpts]
  ELSE [err |-> "", opts |-> [n \in OPTIONS |-> IF HasOwnProperty(obj, n)
                                                THEN Prop(obj, n) ELSE DefaultOpts[n]]]

\* index at which the loop over positional Dygraph arguments stops (0-based)
LeadingDygraphs(args) ==
  IF \A k \in 1..Len(args) : InstanceOfDygraph(args[k]) THEN Len(args)
  ELSE (CHOOSE k \in 1..Len(args) :
          /\ ~InstanceOfDygraph(args[k])
          /\ \A m \in 1..(k - 1) : InstanceOfDygraph(args[m])) - 1

Parsed(e, ds, o) == [err |-> e, dygraphs |-> ds, opts |-> o]

\* lines 50-102: argument parsing
ParseArguments(args) ==
  IF Len(args) = 0 THEN Parsed(ENoArgs, <<>>, DefaultOpts)
  ELSE IF InstanceOfDygraph(args[1])
  THEN LET i  == LeadingDygraphs(args)
           ds == [k \in 1..i |-> args[k].id]
       IN IF i < Len(args) - 1 THEN Parsed(EAllBut, ds, DefaultOpts)
          ELSE IF i = Len(args) - 1
          THEN LET p == parseOpts(args[Len(args)]) IN Parsed(p.err, ds, p.opts)
          ELSE Parsed("", ds, DefaultOpts)
  ELSE IF args[1].k = "null" THEN Parsed(ETypeError, <<>>, DefaultOpts)
  ELSE IF args[1].k = "seq" /\ Len(args[1].s) # 0
  THEN LET ds == args[1].s
       IN IF Len(args) = 2
          THEN LET p == parseOpts(args[2]) IN Parsed(p.err, ds, p.opts)
          ELSE IF Len(args) > 2 THEN Parsed(ETwoArgs, ds, DefaultOpts)
          ELSE Parsed("", ds, DefaultOpts)
  ELSE Parsed(EFirst, <<>>, DefaultOpts)

\* a variant that accepts a single chart
TooFew_AcceptsOne(ds) == Len(ds) < 1

\* lines 104-107
TooFew(ds) == Len(ds) < 2

RECURSIVE RegisterLoop(_, _)
RegisterLoop(S, i) ==
  IF i > Len(S.dygraphs) \/ S.thrown # "" THEN S
  ELSE LET n == S.dygraphs[i]
       IN IF n = NonChart THEN Throw(S, ETypeError)     \* g.ready is not a function
          ELSE LET S1 == [S EXCEPT !.nReady = @ + 1,
                                   !.log = Append(@, Ev("ready", n, ""))]
                   S2 == IF S1.g[n].ready THEN ReadyCallback(S1)
                         ELSE [S1 EXCEPT !.g[n].readyFns = @ + 1]
               IN RegisterLoop(S2, i + 1)

synchronize(S, args) ==
  LET p == ParseArguments(args)
  IN IF p.err # "" THEN Throw(S, p.err)
     ELSE IF TooFew(p.dygraphs) THEN Throw(S, ENeedTwo)
     ELSE RegisterLoop([S EXCEPT !.dygraphs = p.dygraphs, !.opts = p.opts,
                                 !.prevCallbacks = <<>>,
                                 !.readycount = Len(p.dygraphs)], 1)

\* ======================= detach() =======================

\* what detach() leaves in the closure variables
ReleasedByDetach == {"dygraphs", "opts", "prevCallbacks"}

\* a variant in which a released handle is not noticed
DetachThrows_Never(rel) == FALSE

\* a second detach() evaluates dygraphs.length on null
DetachThrows(rel) == "dygraphs" \in rel

\* a variant that writes the draw callback back whatever the `zoom` option says
RestoreZoom_Always(S, i) ==
  LET n == S.dygraphs[i]
  IN IF i > Len(S.prevCallbacks) THEN Throw(S, ETypeError)
     ELSE FireDraw([S EXCEPT !.g[n].drawCallback = S.prevCallbacks[i].drawCallback,
                             !.nSet = @ + 1,
                             !.log = Append(@, Ev("restore", n, "drawCallback"))],
                   n, FALSE, MaxDepth)

RestoreZoom(S, i) ==
  LET n == S.dygraphs[i]
  IN IF ~S.opts.zoom THEN S
     ELSE IF i > Len(S.prevCallbacks) THEN Throw(S, ETypeError)
     ELSE FireDraw([S EXCEPT !.g[n].drawCallback = S.prevCallbacks[i].drawCallback,
                             !.nSet = @ + 1,
                             !.log = Append(@, Ev("restore", n, "drawCallback"))],
                   n, FALSE, MaxDepth)

RestoreSelection(S, i) ==
  LET n == S.dygraphs[i]
  IN IF ~S.opts.selection THEN S
     ELSE IF i > Len(S.prevCallbacks) THEN Throw(S, ETypeError)
     ELSE FireDraw([S EXCEPT !.g[n].highlightCallback = S.prevCallbacks[i].highlightCallback,
                             !.g[n].unhighlightCallback = S.prevCallbacks[i].unhighlightCallback,
                             !.nSet = @ + 1,
                             !.log = @ \o << Ev("restore", n, "highlightCallback"),
                                             Ev("restore", n, "unhighlightCallback") >>],
                   n, FALSE, MaxDepth)

RECURSIVE DetachLoop(_, _)
DetachLoop(S, i) ==
  IF i > Len(S.dygraphs) \/ S.thrown # "" THEN S
  ELSE LET S1 == RestoreZoom(S, i)
           S2 == IF S1.thrown # "" THEN S1 ELSE RestoreSelection(S1, i)
       IN DetachLoop(S2, i + 1)

detach(S) ==
  IF DetachThrows(S.released) THEN Throw(S, ETypeError)
  ELSE LET S1 == DetachLoop(S, 1)
       IN IF S1.thrown # "" THEN S1
          ELSE [S1 EXCEPT !.released = ReleasedByDetach]

\* ======================= actions =======================

\* the page calls synchronize(args...)
Synchronize ==
  /\ phase = "none"
  /\ \E args \in ArgLists :
       LET S == synchronize(St, args)
       IN /\ Commit(S)
          /\ phase' = IF S.thrown = "" THEN "built" ELSE "failed"
          /\ last' = [Act("synchronize") EXCEPT !.args = args]
  /\ UNCHANGED events

RECURSIVE RunReadyFns(_, _)
RunReadyFns(S, k) ==
  IF k = 0 \/ S.thrown # "" THEN S
  ELSE RunReadyFns(ReadyCallback(S), k - 1)

\* chart c completes its first render: it calls its drawCallback with
\* initial = true and then the callbacks registered with ready()
ChartReady(c) ==
  /\ ~g[c].ready
  /\ LET S0 == FireDraw(St, c, TRUE, MaxDepth)
         S1 == [S0 EXCEPT !.g[c].ready = TRUE, !.g[c].readyFns = 0]
         S2 == RunReadyFns(S1, g[c].readyFns)
     IN Commit(S2)
  /\ last' = [Act("ready") EXCEPT !.chart = c]
  /\ UNCHANGED <<phase, events>>

\* the page calls detach() on the handle
Detach ==
  /\ phase = "built"
  /\ Commit(detach(St))
  /\ last' = Act("detach")
  /\ UNCHANGED <<phase, events>>

\* the viewport a chart shows
CurrentView(c) == [x |-> g[c].xRange, y |-> g[c].yRange]

\* chart c is drawn showing viewport v (after a zoom or pan, or a redraw of
\* the same viewport); `initial` is the flag the chart passes to drawCallback
Draw(c, v, initial, max) ==
  /\ phase = "built" /\ events < max /\ g[c].ready
  /\ initial => v = CurrentView(c)
  /\ LET S0 == [St EXCEPT !.g[c].xRange = v.x, !.g[c].yRange = v.y]
     IN Commit(FireDraw(S0, c, initial, MaxDepth))
  /\ last' = [Act("draw") EXCEPT !.chart = c, !.initial = initial, !.view = v.x \o v.y]
  /\ events' = events + 1
  /\ UNCHANGED phase

\* the pointer moves over the row of chart c at x, closest to series s:
\* the chart selects the row and calls highlightCallback
Highlight(c, x, s, max) ==
  /\ phase = "built" /\ events < max /\ g[c].ready
  /\ getRowForX(c, x) # NoRow
  /\ LET S0 == [St EXCEPT !.g[c].sel = Sel(getRowForX(c, x), s)]
     IN Commit(FireHighlight(S0, c, x, s, MaxDepth))
  /\ last' = [Act("highlight") EXCEPT !.chart = c, !.x = x, !.series = s]
  /\ events' = events + 1
  /\ UNCHANGED phase

\* the pointer leaves chart c: the chart calls unhighlightCallback and then
\* clears its own selection
Unhighlight(c, max) ==
  /\ phase = "built" /\ events < max /\ g[c].ready
  /\ LET S0 == FireUnhighlight(St, c, MaxDepth)
     IN Commit([S0 EXCEPT !.g[c].sel = NoSel])
  /\ last' = [Act("unhighlight") EXCEPT !.chart = c]
  /\ events' = events + 1
  /\ UNCHANGED phase

DrawEvent(max) ==
  \E c \in Charts, initial \in BOOLEAN :
    \E v \in Views \cup {CurrentView(c)} : Draw(c, v, initial, max)

HighlightEvent(max) ==
  \E c \in Charts, x \in HighlightXs, s \in Series : Highlight(c, x, s, max)

UnhighlightEvent(max) == \E c \in Charts : Unhighlight(c, max)

Lifecycle ==
  \/ Synchronize
  \/ \E c \in Charts : ChartReady(c)
  \/ Detach

\* the whole program: construction, readiness, both protocols, detach
Next ==
  \/ Lifecycle
  \/ DrawEvent(MaxEvents)
  \/ HighlightEvent(MaxEvents)
  \/ UnhighlightEvent(MaxEvents)

Spec == Init /\ [][Next]_vars

\* the viewport protocol with longer runs of draw events
NextZoom == Lifecycle \/ DrawEvent(MaxZoomEvents)

SpecZoom == Init /\ [][NextZoom]_vars

\* the selection protocol with longer runs of highlight / unhighlight events
NextSel ==
  \/ Lifecycle
  \/ HighlightEvent(MaxSelEvents)
  \/ UnhighlightEvent(MaxSelEvents)

SpecSel == Init /\ [][NextSel]_vars

\* ---- collaborator failures ----
\* most collaborator calls one handler can make: getRowForX and setSelection
\* on every other chart, and the vaulted callback
MaxCalls == 2 * NumCharts - 1

\* chart c is drawn showing viewport v and the k-th call its draw handler
\* makes on a chart or on the vaulted callback throws
FailingDraw(c, v, k, max) ==
  /\ phase = "built" /\ events < max /\ g[c].ready
  /\ LET S0 == [St EXCEPT !.g[c].xRange = v.x, !.g[c].yRange = v.y, !.failAt = k]
         S1 == FireDraw(S0, c, FALSE, MaxDepth)
     IN S1.thrown = ECollaborator /\ Commit(S1)
  /\ last' = [Act("draw") EXCEPT !.chart = c, !.view = v.x \o v.y]
  /\ events' = events + 1
  /\ UNCHANGED phase

\* the pointer moves over a row of chart c and the k-th call its highlight
\* handler makes throws
FailingHighlight(c, x, s, k, max) ==
  /\ phase = "built" /\ events < max /\ g[c].ready
  /\ getRowForX(c, x) # NoRow
  /\ LET S0 == [St EXCEPT !.g[c].sel = Sel(getRowForX(c, x), s), !.failAt = k]
         S1 == FireHighlight(S0, c, x, s, MaxDepth)
     IN S1.thrown = ECollaborator /\ Commit(S1)
  /\ last' = [Act("highlight") EXCEPT !.chart = c, !.x = x, !.series = s]
  /\ events' = events + 1
  /\ UNCHANGED phase

\* the pointer leaves chart c and the k-th call its unhighlight handler makes
\* throws; the chart does not get to clear its own selection
FailingUnhighlight(c, k, max) ==
  /\ phase = "built" /\ events < max /\ g[c].ready
  /\ LET S1 == FireUnhighlight([St EXCEPT !.failAt = k], c, MaxDepth)
     IN S1.thrown = ECollaborator /\ Commit(S1)
  /\ last' = [Act("unhighlight") EXCEPT !.chart = c]
  /\ events' = events + 1
  /\ UNCHANGED phase

FailingEvent(max) ==
  \E c \in Charts, k \in 1..MaxCalls :
    \/ \E v \in Views : FailingDraw(c, v, k, max)
    \/ \E x \in HighlightXs : FailingHighlight(c, x, "temp", k, max)
    \/ FailingUnhighlight(c, k, max)

\* the state before synchronize() on a page whose charts have all rendered
Rendered ==
  [ dygraphs |-> <<>>, opts |-> DefaultOpts, prevCallbacks |-> <<>>,
    released |-> {}, readycount |-> 0,
    g |-> [c \in Charts |-> [InitChart(c) EXCEPT !.ready = TRUE]],
    zblock |-> FALSE, sblock |-> FALSE, log |-> <<>>,
    activations |-> 0, nReady |-> 0, nGet |-> 0, nSet |-> 0, thrown |-> "",
    failAt |-> 0, calls |-> 0 ]

\* groups of pairwise distinct charts
DistinctGroups == {ds \in SeqsUpTo(Charts, NumCharts) : Len(ds) >= 2 /\ Distinct(ds)}

\* synchronize(charts, options) has been called on rendered charts: the
\* ready callbacks ran inside the call and the group is activated
InitFail ==
  \E ds \in DistinctGroups, o \in OptObjs :
    LET args == <<ASeq(ds), AObj(o)>>
        S    == synchronize(Rendered, args)
    IN /\ phase = "built" /\ err = S.thrown /\ events = 0
       /\ last = [Act("synchronize") EXCEPT !.args = args]
       /\ dygraphs = S.dygraphs /\ opts = S.opts /\ prevCallbacks = S.prevCallbacks
       /\ released = S.released /\ readycount = S.readycount /\ g = S.g
       /\ zblock = S.zblock /\ sblock = S.sblock /\ log = S.log
       /\ activations = S.activations /\ nReady = S.nReady /\ nGet = S.nGet
       /\ nSet = S.nSet

\* an activated group whose chart operations may throw
NextFail ==
  \/ Detach
  \/ \E c \in Charts, v \in Views : Draw(c, v, FALSE, MaxFailEvents)
  \/ \E c \in Charts, x \in HighlightXs : Highlight(c, x, "temp", MaxFailEvents)
  \/ UnhighlightEvent(MaxFailEvents)
  \/ FailingEvent(MaxFailEvents)

SpecFail == InitFail /\ [][NextFail]_vars

\* ======================= properties =======================

Group == {dygraphs[i] : i \in 1..Len(dygraphs)}
Positions(c) == {i \in 1..Len(dygraphs) : dygraphs[i] = c}

\* synchronization has been activated and the handle has not been detached
Activated == phase = "built" /\ activations > 0 /\ released = {}

\* calls of `op` on chart c in a log
Calls(l, op, c) == {i \in 1..Len(l) : l[i].op = op /\ l[i].chart = c}
AllCalls(l, op) == {i \in 1..Len(l) : l[i].op = op}

\* this step is a draw / highlight / unhighlight event of chart c
DrawStep(c)        == last'.act = "draw" /\ last'.chart = c /\ events' = events + 1
HighlightStep(c)   == last'.act = "highlight" /\ last'.chart = c /\ events' = events + 1
UnhighlightStep(c) == last'.act = "unhighlight" /\ last'.chart = c /\ events' = events + 1

\* this step is a non-initial draw of chart M that the zoom handler propagates
PropagatingDraw(M) ==
  /\ Activated /\ opts.zoom /\ ~zblock /\ M \in Group
  /\ DrawStep(M) /\ ~last'.initial

\* C1: in an activated group with default options, when a non-initial draw of
\* chart M has been handled with the zoom guard idle, every other chart N of
\* the group has M's x-viewport as its date window and M's y-viewport as its
\* value range, and received at most one updateOptions call (exactly one if
\* either option had to change).
C1_ViewportFollows ==
  [][\A M \in Charts :
       (PropagatingDraw(M) /\ opts = DefaultOpts /\ Len(dygraphs) >= 2) =>
         \A N \in Group \ {M} :
           /\ g'[N].dateWindow = Arr(g'[M].xRange)
           /\ g'[N].valueRange = Arr(g'[M].yRange)
           /\ Cardinality(Calls(log', "updateOptions", N)) <= 1
           /\ (g'[N].dateWindow # g[N].dateWindow \/ g'[N].valueRange # g[N].valueRange)
                => Cardinality(Calls(log', "updateOptions", N)) = 1]_vars

\* C1 witness: a draw of one chart of a group of three distinct charts with
\* default options has updated both other charts
C1_Witness ==
  /\ Activated /\ opts = DefaultOpts /\ Len(dygraphs) = 3 /\ Distinct(dygraphs)
  /\ last.act = "draw" /\ ~last.initial
  /\ \A N \in Group \ {last.chart} :
       /\ Cardinality(Calls(log, "updateOptions", N)) = 1
       /\ g[N].dateWindow = Arr(g[last.chart].xRange)
       /\ g[N].valueRange = Arr(g[last.chart].yRange)
  /\ g[last.chart].xRange = <<2, 5>>

\* the last event was a non-initial draw of a chart that carries the zoom
\* handler of a group of pairwise distinct charts
HandledDraw ==
  /\ Activated /\ opts.zoom /\ Distinct(dygraphs)
  /\ last.act = "draw" /\ ~last.initial /\ last.chart \in Group

\* C2 as stated: one non-initial draw on a chart of an N-chart group produces
\* exactly N-1 propagated updateOptions calls.
C2_ExactlyNMinusOne ==
  HandledDraw => Cardinality(AllCalls(log, "updateOptions")) = Len(dygraphs) - 1

\* the number of updateOptions calls chart N is due when M has drawn: with
\* range sync, one unless both configured options already equal M's viewport;
\* without range sync, one for each position of N in the group
Due(M, N) ==
  IF opts.range
  THEN IF g[N].dateWindow = Arr(g'[M].xRange) /\ g[N].valueRange = Arr(g'[M].yRange)
       THEN 0 ELSE 1
  ELSE Cardinality(Positions(N))

\* C2 amended: a non-initial draw on chart M of a group of length N produces
\* at most N-1 propagated updateOptions calls: none on M, and on every other
\* chart as many as it is due; every redraw those calls trigger re-enters
\* drawCallback with the guard set, returns at once and updates nothing.
C2_AtMostNMinusOne ==
  [][\A M \in Charts :
       PropagatingDraw(M) =>
         /\ Cardinality(AllCalls(log', "updateOptions")) <= Len(dygraphs) - 1
         /\ Calls(log', "updateOptions", M) = {}
         /\ \A N \in Group \ {M} :
              Cardinality(Calls(log', "updateOptions", N)) = Due(M, N)
         /\ \A i \in 1..Len(log') :
              /\ log'[i].op # "overflow"
              /\ log'[i].depth > 0 => log'[i].op = "return"
              /\ log'[i].op = "updateOptions" =>
                   /\ i < Len(log')
                   /\ log'[i + 1].op = "return" /\ log'[i + 1].chart = log'[i].chart
         /\ ~zblock']_vars

\* C2 witness: a draw that updated some charts of a group of three and
\* skipped another, each update followed by a suppressed nested draw
C2_Witness ==
  /\ HandledDraw /\ Len(dygraphs) = 3
  /\ Cardinality(AllCalls(log, "updateOptions")) = 1
  /\ \E i \in 1..Len(log) : log[i].op = "return" /\ log[i].depth = 1

\* this step is a highlight / unhighlight of chart A that the selection
\* handler propagates
SelectionLive == Activated /\ opts.selection /\ ~sblock

\* C3: with selection sync active and the guard idle, a highlight of chart A
\* at x with series s selects on every other chart B the row B maps x to,
\* with series s; where B has no row at x, B gets no setSelection and no
\* clearSelection call and keeps its selection; A gets no setSelection call.
C3_HighlightSelects ==
  [][\A A \in Charts :
       (SelectionLive /\ A \in Group /\ HighlightStep(A)) =>
         /\ Calls(log', "setSelection", A) = {}
         /\ \A B \in Group \ {A} :
              IF \E r \in 1..Len(XData(B)) : XData(B)[r] = last'.x
              THEN LET r == CHOOSE r \in 1..Len(XData(B)) : XData(B)[r] = last'.x
                   IN /\ \E i \in Calls(log', "setSelection", B) :
                           log'[i].row = r - 1 /\ log'[i].series = last'.series
                      /\ g'[B].sel = Sel(r - 1, last'.series)
              ELSE /\ Calls(log', "setSelection", B) = {}
                   /\ Calls(log', "clearSelection", B) = {}
                   /\ g'[B].sel = g[B].sel]_vars

\* C3 witness: a highlight on one chart selected row 0 on a second chart and
\* left a third chart, which has no row at x, with its earlier selection
C3_Witness ==
  /\ Activated /\ opts.selection /\ last.act = "highlight"
  /\ \E B, D \in Group \ {last.chart} :
       /\ \E i \in Calls(log, "setSelection", B) : log[i].row = 0
       /\ getRowForX(D, last.x) = NoRow /\ g[D].sel.on
       /\ Calls(log, "setSelection", D) = {}

\* the handle was activated and a detach() has completed since
Detached == phase = "built" /\ activations > 0 /\ released # {}

\* the callbacks configured on chart c before synchronize() was called; no
\* action but activation and detach() writes a callback option
Original(c) == Snapshot(InitChart(c))

\* C4: after activation followed by a completed detach(), each of the three
\* callback options of every chart holds the value it held before activation
\* (the same callback, or none), whatever the zoom and selection options and
\* whatever events came between.
C4_DetachRestores ==
  Detached => \A c \in Charts : Snapshot(g[c]) = Original(c)

\* C4 witness: detach() has just restored, after an intervening event, the
\* three callbacks of a chart that had all three configured
C4_Witness ==
  /\ Detached /\ last.act = "detach" /\ err = "" /\ events > 0
  /\ opts.zoom /\ opts.selection
  /\ \E c \in Group :
       /\ PriorHooks(c) = SlotNames
       /\ Calls(log, "restore", c) # {}
       /\ \A k \in 1..3 : g[c][callBackTypes[k]] = UserHook(c, callBackTypes[k])

\* no callback option of any chart has been read or written by synchronize
Untouched ==
  /\ nGet = 0 /\ nSet = 0
  /\ \A c \in Charts : Snapshot(g[c]) = Original(c)

\* C5: activation (the reads of the three callback options of every chart,
\* then the installation of the handlers) happens at most once, and only in
\* the step in which the last outstanding ready callback fires, be it inside
\* synchronize() or later; until then, and for ever if some chart of the
\* group never reports ready, no callback option is read or written; and
\* when the last ready callback of a handle that is not released fires,
\* activation does happen, reading before writing.
C5_ReadinessBarrier ==
  /\ [](activations <= 1)
  /\ []((activations = 0 \/ \E c \in Group : c # NonChart /\ ~g[c].ready) => Untouched)
  /\ [][activations' # activations =>
          /\ activations = 0 /\ readycount' = 0
          /\ last'.act \in {"synchronize", "ready"}
          /\ last'.act = "ready" =>
               readycount >= 1 /\ last'.chart \in {dygraphs[i] : i \in 1..Len(dygraphs)}
          /\ \A i \in 1..Len(dygraphs') : g'[dygraphs'[i]].ready]_vars
  /\ [][(/\ readycount' = 0 /\ released = {}
          /\ \/ last'.act = "ready" /\ readycount >= 1 /\ events' = events
             \/ last'.act = "synchronize" /\ phase = "none" /\ phase' = "built") =>
          /\ activations' = activations + 1
          /\ nGet' = 3 * Len(dygraphs')
          /\ \A i \in AllCalls(log', "getFunctionOption"), j \in AllCalls(log', "install") : i < j
          /\ \A c \in Charts :
               /\ Cardinality(Calls(log', "getFunctionOption", c))
                    = 3 * Cardinality({k \in 1..Len(dygraphs') : dygraphs'[k] = c})
               /\ prevCallbacks' = [k \in 1..Len(dygraphs') |-> Snapshot(g[dygraphs'[k]])]]_vars

\* C5 witness: activation has just happened in the ready callback of a chart
\* that reported after synchronize() returned, in a group of three
C5_Witness ==
  /\ activations = 1 /\ last.act = "ready" /\ Len(dygraphs) = 3 /\ Distinct(dygraphs)
  /\ AllCalls(log, "install") # {} /\ nGet = 9

IsChartArg(a) == a.k = "chart"
IsObjectArg(a) == a.k \in {"chart", "obj", "seq"}

\* the invalid invocations of synchronize(), by the shape of the arguments
InvalidInvocation(args) ==
  \/ Len(args) = 0
  \/ Len(args) = 1 /\ IsChartArg(args[1])
  \/ /\ Len(args) >= 1 /\ IsChartArg(args[1])                  \* positional form
     /\ \/ \E k \in 1..(Len(args) - 1) : ~IsChartArg(args[k])
        \/ ~IsObjectArg(args[Len(args)])
        \/ Cardinality({k \in 1..Len(args) : IsChartArg(args[k])}) < 2
  \/ /\ Len(args) >= 1 /\ args[1].k = "seq"                    \* sequence form
     /\ \/ Len(args) > 2
        \/ Len(args) = 2 /\ ~IsObjectArg(args[2])
        \/ Len(args[1].s) < 2
  \/ Len(args) >= 1 /\ args[1].k \notin {"chart", "seq"}

C7_OnlyDateWindow ==
  /\ []((phase = "built" /\ opts.zoom /\ ~opts.range) =>
         /\ \A c \in Charts : g[c].valueRange = Undef
         /\ \A i \in AllCalls(log, "updateOptions") : log[i].keys = {"dateWindow"})
  /\ [][(phase = "built" /\ opts.zoom /\ ~opts.range) =>
          \A c \in Charts : g'[c].yRange # g[c].yRange => DrawStep(c)]_vars
  /\ [][\A M \in Charts :
          (PropagatingDraw(M) /\ ~opts.range) =>
            \A N \in Group \ {M} :
              /\ g'[N].dateWindow = Arr(g'[M].xRange)
              /\ Calls(log', "updateOptions", N) # {}]_vars

\* C7 witness: with range false a chart whose y-viewport differs from the
\* drawn chart's has just been given the drawn chart's date window
C7_Witness ==
  /\ Activated /\ opts.zoom /\ ~opts.range /\ last.act = "draw" /\ ~last.initial
  /\ \E N \in Group \ {last.chart} :
       /\ Calls(log, "updateOptions", N) # {}
       /\ g[N].dateWindow = Arr(g[last.chart].xRange)
       /\ g[N].yRange # g[last.chart].yRange

\* C8: with zoom false and selection true the drawCallback option of every
\* chart stays as it was, no draw changes the date window, value range or
\* viewport of another chart, and highlight and unhighlight are propagated
\* to every other chart of the group.
C8_SelectionWithoutZoom ==
  /\ []((phase = "built" /\ ~opts.zoom) =>
         \A c \in Charts : g[c].drawCallback = Original(c).drawCallback)
  /\ [][(phase = "built" /\ ~opts.zoom) =>
          \A M \in Charts : DrawStep(M) =>
            /\ AllCalls(log', "updateOptions") = {}
            /\ \A N \in Charts :
                 /\ g'[N].dateWindow = g[N].dateWindow
                 /\ g'[N].valueRange = g[N].valueRange
                 /\ N # M => (g'[N].xRange = g[N].xRange /\ g'[N].yRange = g[N].yRange)]_vars
  /\ [][(SelectionLive /\ ~opts.zoom) =>
          \A A \in Group :
            /\ HighlightStep(A) =>
                 \A B \in Group \ {A} :
                   getRowForX(B, last'.x) # NoRow =>
                     g'[B].sel = Sel(getRowForX(B, last'.x), last'.series)
            /\ UnhighlightStep(A) =>
                 \A B \in Group \ {A} :
                   Calls(log', "clearSelection", B) # {} /\ g'[B].sel = NoSel]_vars

\* C8 witness: with zoom false and selection true a chart of the activated
\* group was drawn with a new viewport and the other charts kept theirs
C8_Witness ==
  /\ Activated /\ ~opts.zoom /\ opts.selection
  /\ last.act = "draw" /\ ~last.initial /\ last.chart \in Group
  /\ g[last.chart].xRange = <<2, 5>>
  /\ \A N \in Group \ {last.chart} : g[N].xRange = <<0, 10>> /\ g[N].dateWindow = Undef
  /\ \A c \in Group : g[c].highlightCallback = SyncHook("highlightCallback")

\* C9 as stated: an unhighlight of chart A handled by the selection handler
\* calls clearSelection exactly once on every other chart of the group and
\* never on A, and leaves no other chart with a selection.
C9_ClearsOnce ==
  (Activated /\ opts.selection /\ last.act = "unhighlight" /\ last.chart \in Group) =>
    /\ Calls(log, "clearSelection", last.chart) = {}
    /\ \A B \in Group \ {last.chart} :
         /\ Cardinality(Calls(log, "clearSelection", B)) = 1
         /\ ~g[B].sel.on

\* C10: once a detach() on an activated handle has completed, every further
\* detach() throws and changes no callback option of any chart.
C10_SecondDetachThrows ==
  [][(Detached /\ last'.act = "detach") =>
       /\ err' = ETypeError
       /\ g' = g /\ nSet' = nSet /\ log' = <<>>]_vars

\* C10 witness: a second detach() on an activated handle has thrown
C10_Witness ==
  /\ Detached /\ last.act = "detach" /\ err = ETypeError
  /\ released = ReleasedByDetach

\* entries of a log for `op` on chart c with callback option `slot`
SlotCalls(l, op, c, slot) ==
  {i \in 1..Len(l) : l[i].op = op /\ l[i].chart = c /\ l[i].slot = slot}

\* the callback option a selection event goes through
SlotOf(act) == IF act = "highlight" THEN "highlightCallback" ELSE "unhighlightCallback"

\* C11 as stated: for each highlight or unhighlight event of chart M handled
\* with the selection guard idle, M's vaulted callback for that option, if
\* there is one, is invoked exactly once, and no callback the page configured
\* on another chart is invoked, nested events included.
C11_PassThroughOnce ==
  (/\ Activated /\ opts.selection /\ last.chart \in Group
   /\ last.act \in {"highlight", "unhighlight"}) =>
    /\ Cardinality(SlotCalls(log, "prev", last.chart, SlotOf(last.act)))
         = IF Truthy(Original(last.chart)[SlotOf(last.act)]) THEN 1 ELSE 0
    /\ \A i \in 1..Len(log) :
         log[i].op \in {"prev", "user"} => log[i].chart = last.chart

\* C12 as stated: every draw event that reaches the installed draw handler
\* of a chart, suppressed (guard set, or initial draw) or not, is passed on
\* to the draw callback the chart had before activation, if it had one.
C12_SuppressedDrawPassesThrough ==
  (Activated /\ opts.zoom /\ Distinct(dygraphs) /\ last.act = "draw") =>
    \A i \in 1..Len(log) :
      (/\ log[i].op \in {"return", "propagate"} /\ log[i].slot = "drawCallback"
       /\ Truthy(Original(log[i].chart).drawCallback)) =>
        \E j \in (i + 1)..Len(log) :
          /\ log[j].op = "prev" /\ log[j].chart = log[i].chart
          /\ log[j].slot = "drawCallback"

\* C14 as stated: during a propagation from M a chart N whose configured date
\* window already equals M's x-viewport and, when range is true, whose
\* configured value range already equals M's y-viewport, gets no
\* updateOptions call; with range false the date window alone decides.
C14_RedundantSkipped ==
  [][\A M \in Charts :
       PropagatingDraw(M) =>
         \A N \in Group \ {M} :
           (/\ g[N].dateWindow = Arr(g'[M].xRange)
            /\ opts.range => g[N].valueRange = Arr(g'[M].yRange)) =>
             Calls(log', "updateOptions", N) = {}]_vars

\* this step is a detach() that completes on an activated handle
DetachCompletes ==
  /\ Activated /\ last'.act = "detach" /\ released' = ReleasedByDetach

C18_EarlyDetachIsClean ==
  /\ (phase = "built" /\ Distinct(dygraphs) /\ activations = 0 /\ last.act = "detach") =>
       err = "" /\ released = ReleasedByDetach
  /\ (phase = "built" /\ Distinct(dygraphs) /\ released # {} /\ last.act = "ready") =>
       err = "" /\ (activations = 0 => Untouched)

\* C19 as stated: every group synchronize() accepts has at least two
\* elements, all of them charts and pairwise distinct.
C19_GroupDistinct ==
  phase = "built" =>
    /\ Len(dygraphs) >= 2
    /\ \A i \in 1..Len(dygraphs) : dygraphs[i] \in Charts
    /\ Distinct(dygraphs)

\* the position of chart c in a group of pairwise distinct charts
PositionOf(c) == CHOOSE i \in 1..Len(dygraphs) : dygraphs[i] = c

\* the vaulted draw callback was invoked at entry p of the log
PrevDrawAt(p) ==
  p \in 1..Len(log) /\ log[p].op = "prev" /\ log[p].slot = "drawCallback"

\* C13 as stated: inside one viewport propagation the vaulted draw callback
\* of the originating chart M is invoked only after the loop over the group,
\* when every other chart has received the viewport (no updateOptions call
\* follows the invocation), and the zoom guard is released only afterwards.
C13_PrevAfterLoop ==
  HandledDraw =>
    \A p \in 1..Len(log) :
      PrevDrawAt(p) =>
        /\ log[p].block /\ ~zblock
        /\ \A q \in 1..Len(log) : log[q].op = "updateOptions" => q < p

\* C13 amended: the vaulted draw callback of M is invoked inside the loop, at
\* M's own position in group order, at most once: the charts placed before M
\* have been updated when it runs, the charts placed after M are updated only
\* after it has returned; the guard is set while it runs and is released
\* after the loop has finished.
C13_PrevAtOwnPosition ==
  HandledDraw =>
    /\ Cardinality({p \in 1..Len(log) : PrevDrawAt(p)}) <= 1
    /\ \A p \in 1..Len(log) :
         PrevDrawAt(p) =>
           /\ log[p].chart = last.chart /\ log[p].row = PositionOf(last.chart)
           /\ log[p].block /\ ~zblock
           /\ \A q \in 1..Len(log) :
                log[q].op = "updateOptions" =>
                  (q < p <=> PositionOf(log[q].chart) < log[p].row)

\* C13 witness: the chart in the middle of a group of three drew; its vaulted
\* draw callback ran after the first chart was updated and before the last
C13_Witness ==
  /\ HandledDraw /\ Len(dygraphs) = 3 /\ PositionOf(last.chart) = 2
  /\ \E p, q1, q2 \in 1..Len(log) :
       /\ PrevDrawAt(p) /\ q1 < p /\ p < q2
       /\ log[q1].op = "updateOptions" /\ log[q1].chart = dygraphs[1]
       /\ log[q2].op = "updateOptions" /\ log[q2].chart = dygraphs[3]

\* this step is a user event handled without any collaborator call throwing
QuietStep == events' = events + 1 /\ err' # ECollaborator

\* C15: as long as no collaborator call throws, both guards are idle
\* whenever no handler is running: they are idle at the start, a step taken
\* with both guards idle in which nothing throws leaves both idle, every
\* nested handler call made during the step found the guard set and returned,
\* and a draw / highlight / unhighlight event that arrives with the guard idle
\* on a chart of an activated group is propagated.
C15_GuardsIdleBetweenEvents ==
  /\ ~zblock /\ ~sblock
  /\ [][(~zblock /\ ~sblock /\ err' # ECollaborator) =>
          /\ ~zblock' /\ ~sblock'
          /\ QuietStep =>
               \A i \in 1..Len(log') :
                 log'[i].depth > 0 /\ log'[i].op # "user" => log'[i].op = "return"
          /\ \A M \in Group :
               /\ (Activated /\ opts.zoom /\ DrawStep(M) /\ ~last'.initial) =>
                    log'[1].op = "propagate" /\ log'[1].chart = M
               /\ (Activated /\ opts.selection
                   /\ (HighlightStep(M) \/ UnhighlightStep(M))) =>
                    log'[1].op = "propagate" /\ log'[1].chart = M]_vars

\* C15 witness: two events in a row were propagated, the second by the draw
\* handler and the first by a selection handler or the draw handler, and both
\* guards are idle
C15_Witness ==
  /\ Activated /\ opts.zoom /\ opts.selection /\ events = 2 /\ err = ""
  /\ ~zblock /\ ~sblock
  /\ last.act = "draw" /\ Len(log) >= 3
  /\ log[1].op = "propagate"
  /\ \E i \in 1..Len(log) : log[i].op = "return" /\ log[i].depth > 0
  /\ \E c \in Group : g[c].sel.on

\* entries of the log that are calls on a chart or on a vaulted callback
Effects(l) ==
  {i \in 1..Len(l) : l[i].op \in {"updateOptions", "setSelection",
                                   "clearSelection", "prev"}}

\* this step is a user event during which a collaborator call threw
FailedStep == events' = events + 1 /\ err' = ECollaborator

\* C16: when a call on a chart or on a vaulted callback throws inside a
\* propagation loop, the event ends with that error, no call is made after
\* the one that threw, the charts placed after the throwing chart in group
\* order are left as they were, and the guard of the protocol stays set; while
\* it is set and the group is not detached, every event of that protocol
\* returns at once from the handler (no call on any chart, no vaulted
\* callback), and the guard stays set.
C16_FailFast ==
  [][/\ FailedStep =>
          /\ Cardinality(AllCalls(log', "throw")) = 1
          /\ log'[Len(log')].op = "throw"
          /\ \A i \in 1..Len(dygraphs) :
               (i > PositionOf(log'[Len(log')].chart) /\ dygraphs[i] # last'.chart)
                 => g'[dygraphs[i]] = g[dygraphs[i]]
          /\ IF last'.act = "draw" THEN zblock' /\ sblock' = sblock
                                   ELSE sblock' /\ zblock' = zblock
     /\ (Activated /\ opts.zoom /\ zblock /\ last'.act # "detach") =>
          /\ zblock'
          /\ \A M \in Group :
               DrawStep(M) =>
                 /\ err' = "" /\ Len(log') = 1 /\ log'[1].op = "return"
                 /\ \A N \in Charts \ {M} : g'[N] = g[N]
     /\ (Activated /\ opts.selection /\ sblock /\ last'.act # "detach") =>
          /\ sblock'
          /\ \A M \in Group :
               (HighlightStep(M) \/ UnhighlightStep(M)) =>
                 /\ err' = "" /\ Len(log') = 1 /\ log'[1].op = "return"
                 /\ \A N \in Charts \ {M} : g'[N] = g[N]]_vars

\* C16 witness: in a group of three the first draw event threw before the
\* last chart was reached, which still has no date window; the guard is set
\* and the second draw event returned at once
C16_Witness ==
  /\ Activated /\ opts.zoom /\ Len(dygraphs) = 3 /\ events = 2
  /\ zblock /\ err = "" /\ last.act = "draw"
  /\ Len(log) = 1 /\ log[1].op = "return"
  /\ g[dygraphs[3]].dateWindow = Undef
  /\ g[dygraphs[1]].dateWindow # Undef

====
